---------------------------- MODULE Spec2Model ----------------------------
(***************************************************************************)
(* ScamVue backend, src/main.py: the /analyze request handler.             *)
(*                                                                         *)
(* One request is followed from its arrival to its response.  Texts and    *)
(* labels are strings; the regular expressions of the two pattern tables   *)
(* are kept as written in the source and matched by a small matcher that   *)
(* implements the subset of Python's re syntax the tables use.             *)
(* Confidences are hundredths (0.85 is 85).                                *)
(***************************************************************************)
EXTENDS Integers, Sequences, FiniteSets, TLC

VARIABLES
    pc,                   \* position of the handler
    text,                 \* message.message
    phishing_indicators,  \* keys of the dict, in insertion order
    spam_indicators,      \* keys of the dict, in insertion order
    result,               \* what the classifier returned
    risk_level,
    confidence,
    primary_label,
    response              \* the HTTP response of the request

vars == <<pc, text, phishing_indicators, spam_indicators, result,
          risk_level, confidence, primary_label, response>>

(***************************************************************************)
(* Bounds of the model.                                                    *)
(***************************************************************************)
MaxFragments == 2

(***************************************************************************)
(* Characters and str.lower()                                              *)
(***************************************************************************)
UpperAlpha == "ABCDEFGHIJKLMNOPQRSTUVWXYZ"
LowerAlpha == "abcdefghijklmnopqrstuvwxyz"
DigitChars == "0123456789"

CharAt(s, i) == SubSeq(s, i, i)

CharIn(c, alphabet) == \E i \in 1..Len(alphabet) : CharAt(alphabet, i) = c

LowerChar(c) ==
    IF CharIn(c, UpperAlpha)
    THEN CharAt(LowerAlpha, CHOOSE i \in 1..Len(UpperAlpha) : CharAt(UpperAlpha, i) = c)
    ELSE c

\* every character lowered, the string split in halves
RECURSIVE lower(_)
lower(s) ==
    IF Len(s) = 0 THEN ""
    ELSE IF Len(s) = 1 THEN LowerChar(s)
    ELSE LET half == Len(s) \div 2
         IN  lower(SubSeq(s, 1, half)) \o lower(SubSeq(s, half + 1, Len(s)))

(***************************************************************************)
(* re.search for the syntax the pattern tables use.  A pattern is a        *)
(* sequence of alternatives, an alternative a sequence of atoms.           *)
(*   Lit(s)          the literal text s                                    *)
(*   Opt(x)          x?          Plus(x)  x+        AtLeast(x, n)  x{n,}   *)
(* where x is ".", "\\w", "\\d", "[A-Z]" or a single literal character,    *)
(*   BackRef(n)      (.)\1{n,}                                             *)
(***************************************************************************)
Lit(s)        == [kind |-> "lit", s |-> s, min |-> 1, max |-> 1, unbounded |-> FALSE]
Opt(x)        == [kind |-> "rep", s |-> x, min |-> 0, max |-> 1, unbounded |-> FALSE]
Plus(x)       == [kind |-> "rep", s |-> x, min |-> 1, max |-> 1, unbounded |-> TRUE]
AtLeast(x, n) == [kind |-> "rep", s |-> x, min |-> n, max |-> n, unbounded |-> TRUE]
BackRef(n)    == [kind |-> "backref", s |-> ".", min |-> n, max |-> n, unbounded |-> TRUE]

InClass(x, c) ==
    IF x = "." THEN c # "\n"
    ELSE IF x = "\\w" THEN CharIn(c, UpperAlpha) \/ CharIn(c, LowerAlpha)
                           \/ CharIn(c, DigitChars) \/ c = "_"
    ELSE IF x = "\\d" THEN CharIn(c, DigitChars)
    ELSE IF x = "[A-Z]" THEN CharIn(c, UpperAlpha)
    ELSE c = x

RECURSIVE MatchFrom(_, _, _, _)
MatchFrom(alt, k, s, pos) ==
    IF k > Len(alt) THEN TRUE
    ELSE LET a    == alt[k]
             left == Len(s) - pos + 1
         IN  IF a.kind = "lit"
             THEN /\ Len(a.s) <= left
                  /\ SubSeq(s, pos, pos + Len(a.s) - 1) = a.s
                  /\ MatchFrom(alt, k + 1, s, pos + Len(a.s))
             ELSE IF a.kind = "rep"
             THEN \E n \in a.min..(IF a.unbounded THEN left ELSE a.max) :
                      /\ n <= left
                      /\ \A j \in pos..(pos + n - 1) : InClass(a.s, CharAt(s, j))
                      /\ MatchFrom(alt, k + 1, s, pos + n)
             ELSE \E n \in a.min..(left - 1) :
                      /\ InClass(a.s, CharAt(s, pos))
                      /\ \A j \in (pos + 1)..(pos + n) : CharAt(s, j) = CharAt(s, pos)
                      /\ MatchFrom(alt, k + 1, s, pos + n + 1)

re_search(pattern, s) ==
    \E i \in 1..Len(pattern) : \E pos \in 1..(Len(s) + 1) :
        MatchFrom(pattern[i], 1, s, pos)

\* "x in s" for two strings
Contains(s, x) ==
    \E pos \in 1..(Len(s) - Len(x) + 1) : SubSeq(s, pos, pos + Len(x) - 1) = x

(***************************************************************************)
(* The pattern tables, in dict order.                                      *)
(***************************************************************************)
phishing_patterns == <<
    [category |-> "urgency", pattern |-> <<
        <<Lit("urgent")>>, <<Lit("immediate")>>, <<Lit("quickly")>>, <<Lit("asap")>>,
        <<Lit("emergency")>>, <<Lit("limited time")>>, <<Lit("act now")>>,
        <<Lit("expire"), Opt("s")>>, <<Lit("deadline")>>, <<Lit("today?")>>,
        <<Lit("right now")>> >>],
    [category |-> "credentials", pattern |-> <<
        <<Lit("password")>>, <<Lit("login")>>, <<Lit("credential")>>, <<Lit("account")>>,
        <<Lit("verify")>>, <<Lit("confirmation")>>, <<Lit("security")>>,
        <<Lit("authenticate")>> >>],
    [category |-> "financial", pattern |-> <<
        <<Lit("bank")>>, <<Lit("credit"), Opt("."), Lit("card")>>, <<Lit("$")>>,
        <<Lit("money")>>, <<Lit("payment")>>, <<Lit("transfer")>>, <<Lit("wallet")>>,
        <<Lit("bitcoin")>>, <<Lit("crypto")>>, <<Lit("eth")>>, <<Lit("investment")>> >>],
    [category |-> "personal_info", pattern |-> <<
        <<Lit("ssn")>>, <<Lit("social security")>>, <<Lit("address")>>,
        <<Lit("birth"), Opt("."), Lit("date")>>, <<Lit("passport")>>, <<Lit("license")>>,
        <<Lit("id"), Opt("."), Lit("number")>> >>],
    [category |-> "suspicious_links", pattern |-> <<
        <<Lit("click")>>, <<Lit("link")>>, <<Lit("url")>>, <<Lit("website")>>,
        <<Lit("site")>>, <<Lit("http")>>, <<Lit("bit.ly")>>, <<Lit("tiny.cc")>>,
        <<Lit("sign"), Opt("."), Lit("in")>> >>],
    [category |-> "threats", pattern |-> <<
        <<Lit("suspend")>>, <<Lit("disabled")>>, <<Lit("closed")>>, <<Lit("blocked")>>,
        <<Lit("terminated")>>, <<Lit("locked")>>, <<Lit("restricted")>>,
        <<Lit("limited")>> >>],
    [category |-> "prizes", pattern |-> <<
        <<Lit("won")>>, <<Lit("winner")>>, <<Lit("prize")>>, <<Lit("reward")>>,
        <<Lit("gift")>>, <<Lit("congratulations")>>, <<Lit("lucky")>>,
        <<Lit("selected")>> >>],
    [category |-> "pressure", pattern |-> <<
        <<Lit("only")>>, <<Lit("limited")>>, <<Lit("exclusive")>>,
        <<Lit("special"), Opt("."), Lit("offer")>>, <<Lit("one"), Opt("."), Lit("time")>>,
        <<Lit("today"), Opt("."), Lit("only")>> >>],
    [category |-> "unsolicited_contact", pattern |-> <<
        <<Lit("recruiter")>>, <<Lit("gave"), Plus("."), Lit("contact")>>,
        <<Lit("referred")>>, <<Lit("mentioned you")>>,
        <<Lit("that's why I contacted")>>, <<Lit("reaching out")>>,
        <<Lit("got your contact")>> >>],
    [category |-> "job_bait", pattern |-> <<
        <<Lit("job opportunity")>>, <<Lit("work opportunity")>>, <<Lit("position")>>,
        <<Lit("career")>>, <<Lit("hiring")>>, <<Lit("recruitment")>>,
        <<Lit("employment")>> >>],
    [category |-> "time_pressure", pattern |-> <<
        <<Lit("today")>>, <<Lit("would you be available")>>, <<Lit("discuss")>>,
        <<Lit("share with you")>>, <<Lit("opportunity")>> >>],
    [category |-> "impersonation", pattern |-> <<
        <<Lit("I am "), Plus("\\w")>>, <<Lit("my name is")>>,
        <<Lit("this is "), Plus("\\w")>>, <<Lit("representing")>>,
        <<Lit("on behalf")>> >>],
    [category |-> "vague_opportunity", pattern |-> <<
        <<Lit("information to share")>>, <<Lit("discuss the work")>>,
        <<Lit("opportunity")>>, <<Lit("details")>>, <<Lit("interested in")>>,
        <<Lit("potential")>> >>] >>

spam_patterns == <<
    [category |-> "marketing", pattern |-> <<
        <<Lit("buy")>>, <<Lit("sell")>>, <<Lit("discount")>>, <<Lit("offer")>>,
        <<Lit("deal")>>, <<Lit("price")>>, <<Lit("sale")>>, <<Lit("shop")>>,
        <<Lit("store")>>, <<Lit("product")>> >>],
    [category |-> "promotion", pattern |-> <<
        <<Lit("free")>>, <<Lit("bonus")>>, <<Lit("extra")>>, <<Lit("save")>>,
        <<Lit("discount")>>, <<Plus("\\d"), Lit("% off")>> >>],
    [category |-> "mass_marketing", pattern |-> <<
        <<Lit("subscribe")>>, <<Lit("unsubscribe")>>, <<Lit("newsletter")>>,
        <<Lit("mailing"), Opt("."), Lit("list")>> >>],
    [category |-> "excessive_punctuation", pattern |-> <<
        <<AtLeast("!", 2)>>, <<AtLeast("?", 2)>> >>],
    [category |-> "all_caps", pattern |-> << <<AtLeast("[A-Z]", 4)>> >>],
    [category |-> "repetitive", pattern |-> << <<BackRef(2)>> >>],
    [category |-> "spam_words", pattern |-> <<
        <<Lit("weight"), Opt("."), Lit("loss")>>, <<Lit("earn")>>, <<Lit("income")>>,
        <<Lit("work"), Opt("."), Lit("from"), Opt("."), Lit("home")>>,
        <<Lit("make"), Opt("."), Lit("money")>>,
        <<Lit("business"), Opt("."), Lit("opportunity")>> >>] >>

Keys(matches) == {matches[i] : i \in 1..Len(matches)}

\* for category, pattern in table.items(): if re.search(pattern, text.lower()): ...
RECURSIVE MatchLoop(_, _, _)
MatchLoop(table, k, t) ==
    IF k = 0 THEN <<>>
    ELSE LET before == MatchLoop(table, k - 1, t)
         IN  IF re_search(table[k].pattern, lower(t))
             THEN Append(before, table[k].category)
             ELSE before

\* check_phishing_indicators with "or" for "and" in the combination checks
check_phishing_indicators_or(t) ==
    LET matches == MatchLoop(phishing_patterns, Len(phishing_patterns), t)
        m1 == IF "unsolicited_contact" \in Keys(matches) \/ "job_bait" \in Keys(matches)
              THEN Append(matches, "suspicious_recruitment")
              ELSE matches
        m2 == IF "time_pressure" \in Keys(m1) \/ "vague_opportunity" \in Keys(m1)
              THEN Append(m1, "pressure_tactics")
              ELSE m1
    IN  m2

check_phishing_indicators(t) ==
    LET matches == MatchLoop(phishing_patterns, Len(phishing_patterns), t)
        m1 == IF "unsolicited_contact" \in Keys(matches) /\ "job_bait" \in Keys(matches)
              THEN Append(matches, "suspicious_recruitment")
              ELSE matches
        m2 == IF "time_pressure" \in Keys(m1) /\ "vague_opportunity" \in Keys(m1)
              THEN Append(m1, "pressure_tactics")
              ELSE m1
    IN  m2

check_spam_indicators(t) == MatchLoop(spam_patterns, Len(spam_patterns), t)

(***************************************************************************)
(* Inputs: the messages and the classifier's answers.                      *)
(***************************************************************************)
ScenarioA == "URGENT: verify your password now or your account will be suspended, click here"
ScenarioB == "FREE!! Buy now, save 50% off, subscribe to our newsletter!!!"
ScenarioC == "Hi, I am a recruiter, I got your contact and wanted to discuss a job opportunity today"
ScenarioD == "Hey, are we still on for lunch tomorrow?"

Fragments == {"hello ", "login link ", "bank ", "recruiter ", "hiring ",
              "today ", "details ", "buy FREE ", "!!"}

RECURSIVE Concat(_)
Concat(fs) == IF Len(fs) = 0 THEN "" ELSE Head(fs) \o Concat(Tail(fs))

\* the empty message, the messages of up to MaxFragments fragments, the scenarios
Messages ==
    {Concat(fs) : fs \in UNION {[1..n -> Fragments] : n \in 0..MaxFragments}}
        \cup {ScenarioA, ScenarioB, ScenarioC, ScenarioD}

candidate_labels == <<
    "normal friendly conversation",
    "casual chat message",
    "business communication",
    "phishing attempt",
    "spam advertisement",
    "scam message",
    "unsolicited job offer",
    "suspicious recruitment message" >>

\* top scores the classifier may report, in hundredths
Scores == {20, 55, 65, 75, 85, 87, 90, 95}

\* The handler reads only labels[0] and scores[0]: an answer is modelled by
\* its top entry, and a malformed answer by an empty list.
ClassifierResults ==
    [labels : {<<>>} \cup {<<candidate_labels[i]>> : i \in 1..Len(candidate_labels)},
     scores : {<<>>} \cup {<<s>> : s \in Scores}]

NoResponse == [status |-> 0, detail |-> "", body |-> <<>>]

HTTPException(status_code, detail) ==
    [status |-> status_code, detail |-> detail, body |-> <<>>]

(***************************************************************************)
(* The request handler analyze_message.                                    *)
(***************************************************************************)
Init ==
    /\ pc = "start"
    /\ text \in Messages
    /\ phishing_indicators = <<>>
    /\ spam_indicators = <<>>
    /\ result = <<>>
    /\ risk_level = "unbound"
    /\ confidence = -1
    /\ primary_label = "unbound"
    /\ response = NoResponse

\* lines 96-100
ExtractIndicators ==
    /\ pc = "start"
    /\ phishing_indicators' = check_phishing_indicators(text)
    /\ spam_indicators' = check_spam_indicators(text)
    /\ pc' = "call"
    /\ UNCHANGED <<text, result, risk_level, confidence, primary_label, response>>

\* lines 114-118: the call returns
ClassifierReturns ==
    /\ pc = "call"
    /\ \E r \in ClassifierResults : result' = <<r>>
    /\ pc' = "assess"
    /\ UNCHANGED <<text, phishing_indicators, spam_indicators, risk_level,
                   confidence, primary_label, response>>

\* ClassifierRaises answering from the patterns alone instead of failing
ClassifierRaises_fallback ==
    /\ pc = "call"
    /\ response' =
         [status |-> 200,
          detail |-> "",
          body |-> <<[risk |-> IF Len(phishing_indicators) >= 2 THEN "phishing"
                               ELSE IF Len(spam_indicators) >= 2 THEN "spam"
                               ELSE "legitimate",
                      confidence |-> 50,
                      primary_indicator |-> "",
                      secondary_indicator |-> "",
                      phishing_indicators |-> phishing_indicators,
                      spam_indicators |-> spam_indicators,
                      ml_classification |-> "",
                      ml_confidence |-> 0]>>]
    /\ pc' = "done"
    /\ UNCHANGED <<text, phishing_indicators, spam_indicators, result, risk_level,
                   confidence, primary_label>>

\* lines 114-118 and 171-172: the call raises
ClassifierRaises ==
    /\ pc = "call"
    /\ response' = HTTPException(500, "classifier failed")
    /\ pc' = "error"
    /\ UNCHANGED <<text, phishing_indicators, spam_indicators, result, risk_level,
                   confidence, primary_label>>

\* lines 114-118: the call does not return; the handler has no deadline
\* and no cancellation point, so nothing follows
ClassifierBlocks ==
    /\ pc = "call"
    /\ pc' = "blocked"
    /\ UNCHANGED <<text, phishing_indicators, spam_indicators, result, risk_level,
                   confidence, primary_label, response>>

\* lines 121-123 (and 171-172 when an index is out of range)
InitAssessment ==
    /\ pc = "assess"
    /\ \/ /\ Len(result[1].scores) > 0 /\ Len(result[1].labels) > 0
          /\ risk_level' = "legitimate"
          /\ confidence' = result[1].scores[1]
          /\ primary_label' = result[1].labels[1]
          /\ pc' = "branch"
          /\ UNCHANGED response
       \/ /\ Len(result[1].scores) = 0 \/ Len(result[1].labels) = 0
          /\ response' = HTTPException(500, "list index out of range")
          /\ pc' = "error"
          /\ UNCHANGED <<risk_level, confidence, primary_label>>
    /\ UNCHANGED <<text, phishing_indicators, spam_indicators, result>>

Max(a, b) == IF a >= b THEN a ELSE b

recruitment_indicators ==
    {"unsolicited_contact", "job_bait", "time_pressure",
     "vague_opportunity", "suspicious_recruitment", "pressure_tactics"}

recruitment_matches == recruitment_indicators \cap Keys(phishing_indicators)

num_phishing == Len(phishing_indicators)
num_spam == Len(spam_indicators)

\* DetermineRisk asking for 3 recruitment matches
DetermineRisk_recruit3 ==
    /\ pc = "branch"
    /\ IF Cardinality(recruitment_matches) >= 3
       THEN /\ risk_level' = "phishing"
            /\ confidence' = Max(confidence, 85)
       ELSE IF num_phishing >= 2 \/ Contains(primary_label, "phishing")
                                 \/ Contains(primary_label, "scam")
       THEN /\ risk_level' = "phishing"
            /\ confidence' = Max(confidence, IF num_phishing >= 3 THEN 80 ELSE 60)
       ELSE IF num_spam >= 2 \/ Contains(primary_label, "spam")
                             \/ Contains(primary_label, "advertisement")
       THEN /\ risk_level' = "spam"
            /\ confidence' = Max(confidence, IF num_spam >= 3 THEN 70 ELSE 50)
       ELSE UNCHANGED <<risk_level, confidence>>
    /\ pc' = "override"
    /\ UNCHANGED <<text, phishing_indicators, spam_indicators, result,
                   primary_label, response>>

\* DetermineRisk giving 0.8 only above 3 phishing matches
DetermineRisk_phish4 ==
    /\ pc = "branch"
    /\ IF Cardinality(recruitment_matches) >= 2
       THEN /\ risk_level' = "phishing"
            /\ confidence' = Max(confidence, 85)
       ELSE IF num_phishing >= 2 \/ Contains(primary_label, "phishing")
                                 \/ Contains(primary_label, "scam")
       THEN /\ risk_level' = "phishing"
            /\ confidence' = Max(confidence, IF num_phishing > 3 THEN 80 ELSE 60)
       ELSE IF num_spam >= 2 \/ Contains(primary_label, "spam")
                             \/ Contains(primary_label, "advertisement")
       THEN /\ risk_level' = "spam"
            /\ confidence' = Max(confidence, IF num_spam >= 3 THEN 70 ELSE 50)
       ELSE UNCHANGED <<risk_level, confidence>>
    /\ pc' = "override"
    /\ UNCHANGED <<text, phishing_indicators, spam_indicators, result,
                   primary_label, response>>

\* DetermineRisk with the spam branch tested before the phishing branch
DetermineRisk_spamfirst ==
    /\ pc = "branch"
    /\ IF Cardinality(recruitment_matches) >= 2
       THEN /\ risk_level' = "phishing"
            /\ confidence' = Max(confidence, 85)
       ELSE IF num_spam >= 2 \/ Contains(primary_label, "spam")
                             \/ Contains(primary_label, "advertisement")
       THEN /\ risk_level' = "spam"
            /\ confidence' = Max(confidence, IF num_spam >= 3 THEN 70 ELSE 50)
       ELSE IF num_phishing >= 2 \/ Contains(primary_label, "phishing")
                                 \/ Contains(primary_label, "scam")
       THEN /\ risk_level' = "phishing"
            /\ confidence' = Max(confidence, IF num_phishing >= 3 THEN 80 ELSE 60)
       ELSE UNCHANGED <<risk_level, confidence>>
    /\ pc' = "override"
    /\ UNCHANGED <<text, phishing_indicators, spam_indicators, result,
                   primary_label, response>>

\* DetermineRisk taking the spam branch on a single spam match
DetermineRisk_spam1 ==
    /\ pc = "branch"
    /\ IF Cardinality(recruitment_matches) >= 2
       THEN /\ risk_level' = "phishing"
            /\ confidence' = Max(confidence, 85)
       ELSE IF num_phishing >= 2 \/ Contains(primary_label, "phishing")
                                 \/ Contains(primary_label, "scam")
       THEN /\ risk_level' = "phishing"
            /\ confidence' = Max(confidence, IF num_phishing >= 3 THEN 80 ELSE 60)
       ELSE IF num_spam >= 1 \/ Contains(primary_label, "spam")
                             \/ Contains(primary_label, "advertisement")
       THEN /\ risk_level' = "spam"
            /\ confidence' = Max(confidence, IF num_spam >= 3 THEN 70 ELSE 50)
       ELSE UNCHANGED <<risk_level, confidence>>
    /\ pc' = "override"
    /\ UNCHANGED <<text, phishing_indicators, spam_indicators, result,
                   primary_label, response>>

\* lines 137-145
DetermineRisk ==
    /\ pc = "branch"
    /\ IF Cardinality(recruitment_matches) >= 2
       THEN /\ risk_level' = "phishing"
            /\ confidence' = Max(confidence, 85)
       ELSE IF num_phishing >= 2 \/ Contains(primary_label, "phishing")
                                 \/ Contains(primary_label, "scam")
       THEN /\ risk_level' = "phishing"
            /\ confidence' = Max(confidence, IF num_phishing >= 3 THEN 80 ELSE 60)
       ELSE IF num_spam >= 2 \/ Contains(primary_label, "spam")
                             \/ Contains(primary_label, "advertisement")
       THEN /\ risk_level' = "spam"
            /\ confidence' = Max(confidence, IF num_spam >= 3 THEN 70 ELSE 50)
       ELSE UNCHANGED <<risk_level, confidence>>
    /\ pc' = "override"
    /\ UNCHANGED <<text, phishing_indicators, spam_indicators, result,
                   primary_label, response>>

\* HighRiskCheck assigning 0.9 instead of taking the maximum
HighRiskCheck_assign ==
    /\ pc = "override"
    /\ IF /\ "unsolicited_contact" \in Keys(phishing_indicators)
          /\ "vague_opportunity" \in Keys(phishing_indicators)
       THEN /\ risk_level' = "phishing"
            /\ confidence' = 90
       ELSE UNCHANGED <<risk_level, confidence>>
    /\ pc' = "format"
    /\ UNCHANGED <<text, phishing_indicators, spam_indicators, result,
                   primary_label, response>>

\* HighRiskCheck with "or" for "and"
HighRiskCheck_or ==
    /\ pc = "override"
    /\ IF \/ "unsolicited_contact" \in Keys(phishing_indicators)
          \/ "vague_opportunity" \in Keys(phishing_indicators)
       THEN /\ risk_level' = "phishing"
            /\ confidence' = Max(confidence, 90)
       ELSE UNCHANGED <<risk_level, confidence>>
    /\ pc' = "format"
    /\ UNCHANGED <<text, phishing_indicators, spam_indicators, result,
                   primary_label, response>>

\* lines 148-150
HighRiskCheck ==
    /\ pc = "override"
    /\ IF /\ "unsolicited_contact" \in Keys(phishing_indicators)
          /\ "vague_opportunity" \in Keys(phishing_indicators)
       THEN /\ risk_level' = "phishing"
            /\ confidence' = Max(confidence, 90)
       ELSE UNCHANGED <<risk_level, confidence>>
    /\ pc' = "format"
    /\ UNCHANGED <<text, phishing_indicators, spam_indicators, result,
                   primary_label, response>>

\* ", ".join(names)
RECURSIVE Join(_)
Join(names) ==
    IF Len(names) = 0 THEN ""
    ELSE IF Len(names) = 1 THEN names[1]
    ELSE names[1] \o ", " \o Join(Tail(names))

\* names[:n]
Take(names, n) == SubSeq(names, 1, IF Len(names) < n THEN Len(names) ELSE n)

\* lines 153-170
Respond ==
    /\ pc = "format"
    /\ LET detected_indicators == phishing_indicators \o spam_indicators
       IN  response' =
             [status |-> 200,
              detail |-> "",
              body |-> <<[risk |-> risk_level,
                          confidence |-> confidence,
                          primary_indicator |-> primary_label,
                          secondary_indicator |-> Join(Take(detected_indicators, 3)),
                          phishing_indicators |-> phishing_indicators,
                          spam_indicators |-> spam_indicators,
                          ml_classification |-> result[1].labels[1],
                          ml_confidence |-> result[1].scores[1]]>>]
    /\ pc' = "done"
    /\ UNCHANGED <<text, phishing_indicators, spam_indicators, result, risk_level,
                   confidence, primary_label>>

Next ==
    \/ ExtractIndicators
    \/ ClassifierReturns
    \/ ClassifierRaises
    \/ ClassifierBlocks
    \/ InitAssessment
    \/ DetermineRisk
    \/ HighRiskCheck
    \/ Respond

Spec == Init /\ [][Next]_vars

\* Once the classifier call is over, every step of the handler that can run
\* does run.  The classifier is outside the handler and owes it nothing.
FairSpec ==
    Spec /\ WF_vars(InitAssessment \/ DetermineRisk \/ HighRiskCheck \/ Respond)

(***************************************************************************)
(* Properties                                                              *)
(***************************************************************************)
Verdict == response.body[1]
BaseConfidence == result[1].scores[1]
TopLabel == result[1].labels[1]
PhishingKeys == Keys(phishing_indicators)
SpamKeys == Keys(spam_indicators)
RecruitmentCount ==
    Cardinality({c \in {"unsolicited_contact", "job_bait", "time_pressure",
                        "vague_opportunity", "suspicious_recruitment",
                        "pressure_tactics"} : c \in PhishingKeys})
PhishingLabel == Contains(TopLabel, "phishing") \/ Contains(TopLabel, "scam")
SpamLabel == Contains(TopLabel, "spam") \/ Contains(TopLabel, "advertisement")

\* C1: with at least 2 of the six recruitment indicators in the phishing match
\* set, the verdict is phishing with confidence >= 0.85, whatever the
\* classifier's top label and top score are.
C1_RecruitmentPrecedence ==
    pc = "done" /\ RecruitmentCount >= 2 =>
        Verdict.risk = "phishing" /\ Verdict.confidence >= 85

\* exactly two recruitment indicators, no override pair, and a classifier that
\* calls the message a casual chat with a low score
C1_Witness ==
    /\ pc = "done"
    /\ RecruitmentCount = 2
    /\ "vague_opportunity" \notin PhishingKeys
    /\ TopLabel = "casual chat message"
    /\ BaseConfidence = 20
    /\ Verdict.confidence = 85

\* C2: after initialisation no step of the handler lowers confidence, and the
\* returned confidence is at least the classifier's top score, which is
\* returned unchanged as ml_confidence.
NeverLowered == pc \in {"branch", "override", "format"} => confidence' >= confidence

C2_ConfidenceMonotone ==
    /\ [][NeverLowered]_vars
    /\ [](pc = "done" => /\ Verdict.confidence >= BaseConfidence
                         /\ Verdict.ml_confidence = BaseConfidence)

\* a top score above 0.9 on a message that takes the recruitment branch and
\* the final override
C2_Witness ==
    /\ pc = "done"
    /\ {"unsolicited_contact", "vague_opportunity"} \subseteq PhishingKeys
    /\ BaseConfidence = 95
    /\ Verdict.confidence = 95

\* C3: at least 2 phishing matches give phishing with confidence >= 0.6, at
\* least 3 give confidence >= 0.8, whatever the classifier and the spam
\* matches say; a top label containing "phishing" or "scam" gives phishing
\* with confidence >= 0.6.
C3_PhishingBranch ==
    pc = "done" =>
        /\ num_phishing >= 2 => Verdict.risk = "phishing" /\ Verdict.confidence >= 60
        /\ num_phishing >= 3 => Verdict.confidence >= 80
        /\ PhishingLabel => Verdict.risk = "phishing" /\ Verdict.confidence >= 60

\* three phishing matches outside the recruitment branch, against a
\* classifier that says spam with a low score
C3_Witness ==
    /\ pc = "done"
    /\ num_phishing = 3
    /\ RecruitmentCount < 2
    /\ TopLabel = "spam advertisement"
    /\ BaseConfidence = 20
    /\ Verdict.risk = "phishing"
    /\ Verdict.confidence = 80

\* C4: the verdict is spam exactly when fewer than 2 recruitment indicators
\* matched, num_phishing < 2, the top label contains neither "phishing" nor
\* "scam", and num_spam >= 2 or the top label contains "spam" or
\* "advertisement"; its confidence is then max(base, 0.7 if num_spam >= 3
\* else 0.5).
C4_SpamBranch ==
    pc = "done" =>
        /\ Verdict.risk = "spam" <=>
              /\ RecruitmentCount < 2
              /\ num_phishing < 2
              /\ ~PhishingLabel
              /\ (num_spam >= 2 \/ SpamLabel)
        /\ Verdict.risk = "spam" =>
              Verdict.confidence =
                  Max(BaseConfidence, IF num_spam >= 3 THEN 70 ELSE 50)

\* three spam matches, one phishing match, a classifier that says chat
C4_Witness ==
    /\ pc = "done"
    /\ num_spam >= 3
    /\ num_phishing < 2
    /\ TopLabel = "casual chat message"
    /\ BaseConfidence = 55
    /\ Verdict.risk = "spam"
    /\ Verdict.confidence = 70

\* C5: every verdict is one of legitimate, spam, phishing; it is legitimate
\* exactly when num_phishing < 2, num_spam < 2 and the top label contains none
\* of "phishing", "scam", "spam", "advertisement", and then the confidence is
\* the classifier's top score; the empty message has no matches.
C5_Legitimate ==
    /\ pc # "start" /\ text = "" =>
          phishing_indicators = <<>> /\ spam_indicators = <<>>
    /\ pc = "done" =>
          /\ Verdict.risk \in {"legitimate", "spam", "phishing"}
          /\ Verdict.risk = "legitimate" <=>
                /\ num_phishing < 2
                /\ num_spam < 2
                /\ ~PhishingLabel
                /\ ~SpamLabel
          /\ Verdict.risk = "legitimate" => Verdict.confidence = BaseConfidence

\* one spam match and no phishing match under the label "unsolicited job offer"
C5_Witness ==
    /\ pc = "done"
    /\ num_spam = 1
    /\ num_phishing = 0
    /\ TopLabel = "unsolicited job offer"
    /\ Verdict.risk = "legitimate"
    /\ Verdict.confidence = BaseConfidence

IsBaseCategory(c) ==
    \E i \in 1..Len(phishing_patterns) : phishing_patterns[i].category = c

\* C6: suspicious_recruitment is in the returned match set iff unsolicited_contact
\* and job_bait both are, pressure_tactics iff time_pressure and
\* vague_opportunity both are, and the base entries are those the pattern
\* loop found.
C6_Composites ==
    pc = "call" =>
        /\ "suspicious_recruitment" \in PhishingKeys <=>
              {"unsolicited_contact", "job_bait"} \subseteq PhishingKeys
        /\ "pressure_tactics" \in PhishingKeys <=>
              {"time_pressure", "vague_opportunity"} \subseteq PhishingKeys
        /\ SelectSeq(phishing_indicators, IsBaseCategory)
              = MatchLoop(phishing_patterns, Len(phishing_patterns), text)

\* one composite derived and the other not
C6_Witness ==
    /\ pc = "call"
    /\ "suspicious_recruitment" \in PhishingKeys
    /\ "pressure_tactics" \notin PhishingKeys

WellFormedResult ==
    /\ result # <<>>
    /\ Len(result[1].labels) > 0
    /\ Len(result[1].scores) > 0

\* C7: when the classifier call raises or returns no labels or no scores, the
\* request ends with a status 500 response that carries no verdict; a verdict
\* is only ever returned for a well-formed classifier result.
C7_NoVerdictOnFailure ==
    /\ pc \in {"branch", "override", "format", "done"} => WellFormedResult
    /\ pc = "error" =>
          /\ ~WellFormedResult
          /\ response.status = 500
          /\ response.detail # ""
          /\ response.body = <<>>
    /\ response.body # <<>> => pc = "done" /\ response.status = 200

\* the classifier returned labels without scores for a message whose
\* patterns alone would have given a phishing verdict
C7_Witness ==
    /\ pc = "error"
    /\ result # <<>>
    /\ Len(result[1].labels) > 0
    /\ Len(result[1].scores) = 0
    /\ num_phishing >= 2
    /\ response.status = 500

\* C8: if the classifier does not complete, the request does not wait forever
\* and ends with a timeout error.
C8_ClassifierDeadline == (pc = "blocked") ~> (pc = "error")

\* C9: for scenario B the spam match set includes marketing, promotion,
\* mass_marketing, excessive_punctuation and all_caps, and the verdict is spam
\* with confidence >= 0.7.
C9_ScenarioB ==
    text = ScenarioB /\ pc # "start" =>
        /\ {"marketing", "promotion", "mass_marketing", "excessive_punctuation",
            "all_caps"} \subseteq SpamKeys
        /\ pc = "done" => Verdict.risk = "spam" /\ Verdict.confidence >= 70

OverrideStep ==
    pc = "override" =>
        /\ risk_level' = risk_level
        /\ confidence' # confidence =>
              confidence >= 85 /\ confidence < 90 /\ confidence' = 90

\* C10: the final override never changes the risk level; when it changes
\* anything it raises a confidence in [0.85, 0.9) to 0.9.
C10_OverrideKeepsRisk == [][OverrideStep]_vars

\* the override has acted on a message of the recruitment branch and raised
\* its confidence
C10_Witness ==
    /\ pc = "format"
    /\ {"unsolicited_contact", "vague_opportunity"} \subseteq PhishingKeys
    /\ risk_level = "phishing"
    /\ BaseConfidence = 87
    /\ confidence = 90

=============================================================================
